---- MODULE Spec2Model ----
(***************************************************************************)
(* A model of the 1brc pipeline: the line-aligned partitioners of main.ts  *)
(* and 4-aggregate.ts, the byte parser and aggregator of worker.ts, and    *)
(* the orchestrator of main.ts (worker events, merge, join, report).       *)
(*                                                                         *)
(* A file is a sequence of bytes (ASCII codes); the byte at offset p of    *)
(* the file is file[p + 1].  A JavaScript number is a binary floating-point *)
(* number, here an integer count of units of 1/Scale whose significand has *)
(* at most Precision bits (53 in a double); every arithmetic operation     *)
(* rounds its exact result to the nearest such number, ties to even.       *)
(***************************************************************************)
EXTENDS Integers, Sequences, FiniteSets, TLC

VARIABLES
    file,        \* the content of the input file
    cpuCount,    \* os.cpus().length
    prog,        \* "main" (main.ts) or "aggregate" (4-aggregate.ts)
    pc,          \* the orchestrator's position
    i,           \* createChunks: loop index
    cursor,      \* createChunks: start of the next chunk
    byteChunks,  \* createChunks: the ranges pushed so far
    filePos,     \* the file position of the descriptor createChunks reads from
    tentative,   \* the tentative positions handed to the newline scanner
    wstate,      \* worker.ts, per worker: its position in processFileChunk
    wpos,        \* per worker: number of bytes of its range the stream delivered
    wbuffer,     \* per worker: `buffer`, the carried partial line
    wstats,      \* per worker: `stats`
    wrows,       \* per worker: `rowsProcessed`
    wlines,      \* per worker: the lines handed to processLineFromBuffer, in order
    events,      \* per worker: events on their way to the main thread, in order
    promise,     \* per worker: "pending", "resolved" or "rejected"
    mergeOrder,  \* the workers whose result was merged into masterStats, in merge order
    masterStats, \* main.ts: masterStats
    results,     \* per worker: the WorkerResult its promise resolved with
    output,      \* the report processFileInParallel printed, if it printed one
    pl,          \* the state of one processLineFromBuffer call (SpecLine)
    scan         \* the state of one getPreviousNewlinePosition call (SpecScan)

vars == <<file, cpuCount, prog, pc, i, cursor, byteChunks, filePos, tentative,
          wstate, wpos, wbuffer, wstats, wrows, wlines, events, promise, mergeOrder,
          masterStats, results, output, pl, scan>>

partVars == <<i, cursor, byteChunks, filePos, tentative>>
workerVars == <<wstate, wpos, wbuffer, wstats, wrows, wlines, events>>
mainVars == <<promise, mergeOrder, masterStats, results, output>>

(***************************************************************************)
(* Bounds of the model.                                                    *)
(***************************************************************************)
\* longest file of the partitioner specification, in bytes
MaxFileLen == 8
\* largest worker count (os.cpus().length) the model draws
MaxCpu == 2
\* largest worker count the partitioner specification draws
MaxCpuPart == 4
\* getPreviousNewlinePosition's read window (1 MiB in the source), scaled to the
\* model's files
CHUNK_SIZE == 4
\* getNextTargetBytePosition's read window (1 MiB in the source), scaled
ONE_MB_BYTES == 3
\* most lines of a file of the pipeline specification
MaxLines == 2
\* the read stream's highWaterMark (1 MiB in the source), scaled
HighWaterMark == 4
\* longest line handed to processLineFromBuffer in SpecLine
MaxLineLen == 5
\* the bits of a number's significand (53 in a double), scaled
Precision == 11
\* the numbers of the model are the multiples of 2^-FractionBits (2^-1074 in a
\* double), scaled
FractionBits == 14

(***************************************************************************)
(* Bytes.                                                                  *)
(***************************************************************************)
CHAR_NEWLINE == 10
CHAR_SEMICOLON == 59
ASCII_0 == 48
ASCII_9 == 57
ASCII_DECIMAL == 46
ASCII_MINUS == 45
\* the number 1 in the model's units
Scale == 2 ^ FractionBits

\* what reading past the end of a Buffer yields (undefined)
Undefined == -1
NotFound == -1

Max(x, y) == IF x >= y THEN x ELSE y
Min(x, y) == IF x <= y THEN x ELSE y

RECURSIVE BitLength(_)
\* the number of bits of a natural number
BitLength(a) == IF a = 0 THEN 0 ELSE 1 + BitLength(a \div 2)

\* n / d rounded to the nearest integer, a tie to the even one (n >= 0, d > 0)
RoundDivEven(n, d) ==
    LET q == n \div d
        r == n % d
    IN  IF 2 * r > d \/ (2 * r = d /\ q % 2 = 1) THEN q + 1 ELSE q

\* the number x / y of JavaScript for an integer y > 0: the exact quotient
\* rounded once to a significand of Precision bits
flDiv(x, y) ==
    LET a == IF x < 0 THEN -x ELSE x
        shift == Max(0, BitLength(a \div y) - Precision)
        m == RoundDivEven(a, y * (2 ^ shift)) * (2 ^ shift)
    IN  IF x < 0 THEN -m ELSE m

\* the number x + y of JavaScript: the exact sum, rounded
flAdd(x, y) == flDiv(x + y, 1)

\* the byte at offset p of a byte sequence, Undefined outside it
ByteAt(buf, p) == IF p >= 0 /\ p < Len(buf) THEN buf[p + 1] ELSE Undefined

\* bytes [from, to) of a byte sequence (Buffer.subarray)
Slice(buf, from, to) == IF to <= from THEN << >> ELSE SubSeq(buf, from + 1, to)

(***************************************************************************)
(* fs.readSync(fd, buffer, 0, length, position): the number of bytes read  *)
(* and the offset they were read from.  A position of -1 reads from the    *)
(* descriptor's current file position and advances it.                     *)
(***************************************************************************)
ReadFrom(position, fpos) == IF position < 0 THEN fpos ELSE position

BytesRead(f, length, from) == Max(0, Min(length, Len(f) - from))

(***************************************************************************)
(* main.ts getPreviousNewlinePosition                                      *)
(***************************************************************************)
RECURSIVE ScanBackward(_, _, _)
\* the loop `for (let i = bytesRead - 1; i >= 0; i--)` over the window read
\* at searchStartByte
ScanBackward(f, searchStartByte, k) ==
    IF k < 0 THEN NotFound
    ELSE IF ByteAt(f, searchStartByte + k) = CHAR_NEWLINE
         THEN searchStartByte + k
         ELSE ScanBackward(f, searchStartByte, k - 1)

RECURSIVE PrevNewlineFrom(_, _)
PrevNewlineFrom(f, searchEndByte) ==
    IF searchEndByte <= 0 THEN NotFound
    ELSE LET searchStartByte == Max(0, searchEndByte - CHUNK_SIZE)
             bytesRead == BytesRead(f, CHUNK_SIZE, searchStartByte)
             found == ScanBackward(f, searchStartByte, bytesRead - 1)
         IN  IF bytesRead = 0 THEN NotFound
             ELSE IF found # NotFound THEN found
             ELSE PrevNewlineFrom(f, searchStartByte)

RECURSIVE PrevNewlineFrom2(_, _)
\* the second getPreviousNewlinePosition of main.ts: each window is read with
\* bytesToRead = searchEndByte - searchStartByte
PrevNewlineFrom2(f, searchEndByte) ==
    IF searchEndByte <= 0 THEN NotFound
    ELSE LET searchStartByte == Max(0, searchEndByte - CHUNK_SIZE)
             bytesToRead == searchEndByte - searchStartByte
             bytesRead == BytesRead(f, bytesToRead, searchStartByte)
             found == ScanBackward(f, searchStartByte, bytesRead - 1)
         IN  IF bytesRead = 0 THEN NotFound
             ELSE IF found # NotFound THEN found
             ELSE PrevNewlineFrom2(f, searchStartByte)

getPreviousNewlinePosition2(f, startingByteOffset) ==
    PrevNewlineFrom2(f, startingByteOffset)

\* mutant: the search starts at the byte at startingByteOffset itself
getPreviousNewlinePosition_Inclusive(f, startingByteOffset) ==
    PrevNewlineFrom(f, startingByteOffset + 1)

getPreviousNewlinePosition(f, startingByteOffset) ==
    PrevNewlineFrom(f, startingByteOffset)

(***************************************************************************)
(* 4-aggregate.ts getNextTargetBytePosition.  The result is a record: the  *)
(* position returned and the descriptor's file position afterwards.        *)
(***************************************************************************)
RECURSIVE ScanForward(_, _, _, _, _)
\* the loop `for (let i = 0; i < readBuffer; i++)`: the window was read at
\* offset `from` and is reported relative to startingBufferPosition
ScanForward(f, targetByte, from, k, readBuffer) ==
    IF k >= readBuffer THEN NotFound
    ELSE IF ByteAt(f, from + k) = targetByte THEN k
         ELSE ScanForward(f, targetByte, from, k + 1, readBuffer)

RECURSIVE NextTargetFrom(_, _, _, _, _)
NextTargetFrom(f, targetByte, startingBufferPosition, fileSize, fpos) ==
    IF ~(startingBufferPosition < fileSize) THEN [pos |-> NotFound, fpos |-> fpos]
    ELSE LET remainingBytes == fileSize - startingBufferPosition
             bytesToRead == Min(ONE_MB_BYTES, remainingBytes)
             from == ReadFrom(startingBufferPosition, fpos)
             readBuffer == BytesRead(f, bytesToRead, from)
             fpos2 == IF startingBufferPosition < 0 THEN fpos + readBuffer ELSE fpos
             k == ScanForward(f, targetByte, from, 0, readBuffer)
         IN  IF readBuffer = 0 THEN [pos |-> NotFound, fpos |-> fpos2]
             ELSE IF k # NotFound
                  THEN [pos |-> startingBufferPosition + k, fpos |-> fpos2]
                  ELSE NextTargetFrom(f, targetByte, startingBufferPosition + readBuffer,
                                      fileSize, fpos2)

getNextTargetBytePosition(f, targetByte, fromBufferPosition, fileSize, fpos) ==
    NextTargetFrom(f, targetByte, fromBufferPosition, fileSize, fpos)

(***************************************************************************)
(* buffer.toString('utf8', start, end): the UTF-16 code units of the       *)
(* string the bytes decode to.  A well-formed sequence of one to four      *)
(* bytes gives its code point, as a surrogate pair above U+FFFF; the       *)
(* longest prefix of an ill-formed sequence gives U+FFFD.                  *)
(***************************************************************************)
\* the number of continuation bytes the lead byte b announces, -1 for a byte
\* that cannot lead a sequence
utf8Need(b) ==
    IF b < 128 THEN 0
    ELSE IF b >= 194 /\ b <= 223 THEN 1
    ELSE IF b >= 224 /\ b <= 239 THEN 2
    ELSE IF b >= 240 /\ b <= 244 THEN 3
    ELSE -1

\* the range of the first continuation byte after lead byte b
utf8Low(b) == IF b = 224 THEN 160 ELSE IF b = 240 THEN 144 ELSE 128
utf8High(b) == IF b = 237 THEN 159 ELSE IF b = 244 THEN 143 ELSE 191

isContinuation(c) == c >= 128 /\ c <= 191

\* the UTF-16 code units of code point cp
utf16Units(cp) ==
    IF cp < 65536 THEN <<cp>>
    ELSE <<55296 + ((cp - 65536) \div 1024), 56320 + ((cp - 65536) % 1024)>>

RECURSIVE utf8Decode(_, _)
\* the code units of the string that bytes [k, Len) decode to
utf8Decode(bytes, k) ==
    IF k >= Len(bytes) THEN << >>
    ELSE LET b == ByteAt(bytes, k)
             need == utf8Need(b)
             c1 == ByteAt(bytes, k + 1)
             c2 == ByteAt(bytes, k + 2)
             c3 == ByteAt(bytes, k + 3)
             ok1 == need >= 1 /\ c1 >= utf8Low(b) /\ c1 <= utf8High(b)
             ok2 == ok1 /\ need >= 2 /\ isContinuation(c2)
             ok3 == ok2 /\ need >= 3 /\ isContinuation(c3)
             got == IF ok3 THEN 3 ELSE IF ok2 THEN 2 ELSE IF ok1 THEN 1 ELSE 0
             cp == IF need = 0 THEN b
                   ELSE IF need = 1 THEN (b - 192) * 64 + (c1 - 128)
                   ELSE IF need = 2 THEN (b - 224) * 4096 + (c1 - 128) * 64 + (c2 - 128)
                   ELSE (b - 240) * 262144 + (c1 - 128) * 4096 + (c2 - 128) * 64 + (c3 - 128)
         IN  IF need >= 0 /\ got = need
             THEN utf16Units(cp) \o utf8Decode(bytes, k + 1 + need)
             ELSE <<65533>> \o utf8Decode(bytes, k + 1 + got)

\* buffer.toString('utf8', start, end)
toStringUtf8(buffer, start, end) == utf8Decode(Slice(buffer, start, end), 0)

(***************************************************************************)
(* worker.ts processLineFromBuffer.  A stats map is a function from keys   *)
(* (the station string, as its UTF-16 code units) to records               *)
(* [sum, cnt, min, max].                                                   *)
(***************************************************************************)
RECURSIVE FindSemicolon(_, _, _)
\* the loop `for (let i = start; i < start + length; i++)`: the first semicolon
FindSemicolon(buffer, k, end) ==
    IF k >= end THEN NotFound
    ELSE IF ByteAt(buffer, k) = CHAR_SEMICOLON THEN k
         ELSE FindSemicolon(buffer, k + 1, end)

\* mutant: every byte up to '9' counts as a digit
isDigit_NoLowerBound(char) == char <= ASCII_9

isDigit(char) == char >= ASCII_0 /\ char <= ASCII_9

RECURSIVE DecodeFrom(_, _, _, _)
\* the loop `for (let i = tempPos; i < tempEnd; i++)`; acc holds temperature,
\* hasDecimal and decimalDivisor (a power of ten, exact in a double up to 10^22)
DecodeFrom(buffer, k, tempEnd, acc) ==
    IF k >= tempEnd THEN acc.temperature
    ELSE LET char == ByteAt(buffer, k)
             digit == char - ASCII_0
         IN  IF isDigit(char)
             THEN IF acc.hasDecimal
                  THEN DecodeFrom(buffer, k + 1, tempEnd,
                           [acc EXCEPT !.decimalDivisor = @ * 10,
                                       !.temperature = flAdd(@, flDiv(digit * Scale, acc.decimalDivisor * 10))])
                  ELSE DecodeFrom(buffer, k + 1, tempEnd,
                           [acc EXCEPT !.temperature = flAdd(flDiv(@ * 10, 1), digit * Scale)])
             ELSE IF char = ASCII_DECIMAL
                  THEN DecodeFrom(buffer, k + 1, tempEnd, [acc EXCEPT !.hasDecimal = TRUE])
                  ELSE DecodeFrom(buffer, k + 1, tempEnd, acc)

\* the temperature built from bytes [tempStart, tempEnd) of the buffer
decodeTemperature(buffer, tempStart, tempEnd) ==
    LET isNegative == ByteAt(buffer, tempStart) = ASCII_MINUS
        tempPos == IF isNegative THEN tempStart + 1 ELSE tempStart
        temperature == DecodeFrom(buffer, tempPos, tempEnd,
                           [temperature |-> 0, hasDecimal |-> FALSE, decimalDivisor |-> 1])
    IN  IF isNegative THEN -temperature ELSE temperature

\* the map m with key k set to v
MapSet(m, k, v) == [x \in (DOMAIN m) \cup {k} |-> IF x = k THEN v ELSE m[x]]

\* mutant: a new key's entry starts from zero and is then updated like any other
updateStats_FromZero(stats, station, temperature) ==
    LET old == IF station \in DOMAIN stats THEN stats[station]
               ELSE [sum |-> 0, cnt |-> 0, min |-> 0, max |-> 0]
    IN  MapSet(stats, station,
            [sum |-> flAdd(old.sum, temperature),
             cnt |-> old.cnt + 1,
             min |-> IF temperature < old.min THEN temperature ELSE old.min,
             max |-> IF temperature > old.max THEN temperature ELSE old.max])

\* the update of min/max/sum/cnt
updateStats(stats, station, temperature) ==
    IF station \notin DOMAIN stats
    THEN MapSet(stats, station,
             [sum |-> temperature, cnt |-> 1, min |-> temperature, max |-> temperature])
    ELSE LET old == stats[station]
         IN  MapSet(stats, station,
                 [sum |-> flAdd(old.sum, temperature),
                  cnt |-> old.cnt + 1,
                  min |-> IF temperature < old.min THEN temperature ELSE old.min,
                  max |-> IF temperature > old.max THEN temperature ELSE old.max])

\* mutant: the early return for a line without a semicolon is missing
processLineFromBuffer_NoReturn(buffer, start, length, stats) ==
    LET semicolonPos == FindSemicolon(buffer, start, start + length)
        station == toStringUtf8(buffer, start, semicolonPos)
        temperature == decodeTemperature(buffer, semicolonPos + 1, start + length)
    IN  updateStats(stats, station, temperature)

processLineFromBuffer(buffer, start, length, stats) ==
    LET semicolonPos == FindSemicolon(buffer, start, start + length)
        station == toStringUtf8(buffer, start, semicolonPos)
        temperature == decodeTemperature(buffer, semicolonPos + 1, start + length)
    IN  IF semicolonPos = NotFound THEN stats
        ELSE updateStats(stats, station, temperature)

(***************************************************************************)
(* worker.ts processFileChunk: the body of one `for await` iteration and   *)
(* the final line.  st holds stats, rowsProcessed and the lines processed. *)
(***************************************************************************)
RECURSIVE ScanLines(_, _, _, _)
\* the loop `for (let i = 0; i < buffer.length; i++)`; the result carries the
\* final lineStart
ScanLines(buffer, k, lineStart, st) ==
    IF k >= Len(buffer) THEN [st EXCEPT !.lineStart = lineStart]
    ELSE IF ByteAt(buffer, k) = CHAR_NEWLINE
         THEN LET lineLength == k - lineStart
              IN  IF lineLength > 0
                  THEN ScanLines(buffer, k + 1, k + 1,
                           [st EXCEPT !.stats = processLineFromBuffer(buffer, lineStart, lineLength, @),
                                      !.rows = @ + 1,
                                      !.lines = Append(@, Slice(buffer, lineStart, k))])
                  ELSE ScanLines(buffer, k + 1, k + 1, st)
         ELSE ScanLines(buffer, k + 1, lineStart, st)

\* mutant: the partial line left by the previous iteration is not carried over
processStreamChunk_NoCarry(buffer0, chunk, st) ==
    LET buffer == chunk
        scanned == ScanLines(buffer, 0, 0, [st EXCEPT !.lineStart = 0])
    IN  [scanned EXCEPT !.buffer =
            IF scanned.lineStart < Len(buffer)
            THEN Slice(buffer, scanned.lineStart, Len(buffer))
            ELSE << >>]

\* one iteration of `for await (const chunk of stream)`
processStreamChunk(buffer0, chunk, st) ==
    LET buffer == buffer0 \o chunk
        scanned == ScanLines(buffer, 0, 0, [st EXCEPT !.lineStart = 0])
    IN  [scanned EXCEPT !.buffer =
            IF scanned.lineStart < Len(buffer)
            THEN Slice(buffer, scanned.lineStart, Len(buffer))
            ELSE << >>]

\* mutant: the final line is processed but not counted
processFinalLine_NoCount(st) ==
    IF Len(st.buffer) > 0
    THEN [st EXCEPT !.stats = processLineFromBuffer(st.buffer, 0, Len(st.buffer), @),
                    !.lines = Append(@, st.buffer)]
    ELSE st

\* `if (buffer.length > 0)` after the loop
processFinalLine(st) ==
    IF Len(st.buffer) > 0
    THEN [st EXCEPT !.stats = processLineFromBuffer(st.buffer, 0, Len(st.buffer), @),
                    !.rows = @ + 1,
                    !.lines = Append(@, st.buffer)]
    ELSE st

(***************************************************************************)
(* createChunks (main.ts) and createLineAlignedChunks (4-aggregate.ts):    *)
(* the same loop around the two scanners.  One action per loop iteration.  *)
(***************************************************************************)
FILE_SIZE == Len(file)

approxChunkSize == FILE_SIZE \div cpuCount

\* the scanner's answer for a tentative position: the position found (or
\* NotFound) and the descriptor's file position afterwards
chunkEndPos(t) ==
    IF prog = "main"
    THEN [pos |-> getPreviousNewlinePosition(file, t), fpos |-> filePos]
    ELSE getNextTargetBytePosition(file, CHAR_NEWLINE, t, FILE_SIZE, filePos)

\* the last byte of the chunk that starts at cursor, given the scanner's answer
currentChunkLastByte(isLastChunk, found) ==
    IF isLastChunk THEN FILE_SIZE - 1
    ELSE IF found = NotFound THEN FILE_SIZE - 1
    ELSE found

\* mutant: the next chunk starts at the last byte of the current one
nextCursor_Overlap(last) == last

\* `cursor = currentChunkLastByte + 1`
nextCursor(last) == last + 1

\* mutant: the loop never breaks at the end of the file
reachedEnd_Never(c) == FALSE

\* `if (cursor >= FILE_SIZE) break`
reachedEnd(c) == c >= FILE_SIZE

NoWorkers == << >>

\* statSync, openSync and the loop's initialisation
CreateChunksBegin ==
    /\ pc = "Idle"
    /\ pc' = "Partitioning"
    /\ i' = 0
    /\ cursor' = 0
    /\ byteChunks' = << >>
    /\ filePos' = 0
    /\ tentative' = << >>
    /\ UNCHANGED <<file, cpuCount, prog, pl, scan>>
    /\ UNCHANGED workerVars
    /\ UNCHANGED mainVars

\* one iteration of `for (let i = 0; i < cpuCount; i++)`, with its push, the
\* cursor's advance and the break at the end of the file
ChunkIteration ==
    /\ pc = "Partitioning"
    /\ i < cpuCount
    /\ LET isLastChunk == (i = cpuCount - 1)
           tentativeChunkEndPosition == cursor + approxChunkSize - 1
           answer == IF isLastChunk THEN [pos |-> NotFound, fpos |-> filePos]
                     ELSE chunkEndPos(tentativeChunkEndPosition)
           last == currentChunkLastByte(isLastChunk, answer.pos)
       IN  /\ byteChunks' = Append(byteChunks, [start |-> cursor, end |-> last])
           /\ cursor' = nextCursor(last)
           /\ filePos' = answer.fpos
           /\ tentative' = IF isLastChunk THEN tentative
                           ELSE Append(tentative, tentativeChunkEndPosition)
           /\ i' = i + 1
           /\ pc' = IF reachedEnd(nextCursor(last)) \/ i + 1 >= cpuCount
                    THEN "Partitioned" ELSE "Partitioning"
    /\ UNCHANGED <<file, cpuCount, prog, pl, scan>>
    /\ UNCHANGED workerVars
    /\ UNCHANGED mainVars

(***************************************************************************)
(* The partitioner specification: every file of newline and non-newline    *)
(* bytes up to MaxFileLen, every worker count, both partitioners.          *)
(***************************************************************************)
RECURSIVE SeqsUpTo(_, _)
\* the sequences over S of length at most n
SeqsUpTo(S, n) ==
    IF n = 0 THEN {<< >>}
    ELSE LET shorter == SeqsUpTo(S, n - 1)
         IN  shorter \cup {Append(q, x) : q \in {r \in shorter : Len(r) = n - 1}, x \in S}

NoCall == [done |-> FALSE, buffer |-> << >>, start |-> 0, length |-> 0,
           stats |-> << >>, after |-> << >>]
NoScan == [done |-> FALSE, variant |-> "first", offset |-> 0, result |-> NotFound]
NoOutput == [printed |-> FALSE, stations |-> << >>, text |-> << >>]

IdleRest ==
    /\ pc = "Idle"
    /\ i = 0
    /\ cursor = 0
    /\ byteChunks = << >>
    /\ filePos = 0
    /\ tentative = << >>
    /\ wstate = NoWorkers
    /\ wpos = NoWorkers
    /\ wbuffer = NoWorkers
    /\ wstats = NoWorkers
    /\ wrows = NoWorkers
    /\ wlines = NoWorkers
    /\ events = NoWorkers
    /\ promise = NoWorkers
    /\ mergeOrder = << >>
    /\ masterStats = << >>
    /\ results = NoWorkers
    /\ output = NoOutput

InitPart ==
    /\ file \in SeqsUpTo({CHAR_NEWLINE, 97}, MaxFileLen)   \* 97: 'a', any other byte
    /\ cpuCount \in 1..MaxCpuPart
    /\ prog \in {"main", "aggregate"}
    /\ pl = NoCall
    /\ scan = NoScan
    /\ IdleRest

NextPart == CreateChunksBegin \/ ChunkIteration

SpecPart == InitPart /\ [][NextPart]_vars

(***************************************************************************)
(* worker.ts processFileChunk, one worker per range.  A worker is          *)
(* "spawned", then "reading" its stream, then "posted" (it posted its      *)
(* result and returned), or it failed: "loadFailed" (an uncaught error),   *)
(* "rangeRejected" (createReadStream threw) or "readFailed" (a read        *)
(* threw).  Its events reach the main thread in order.                     *)
(***************************************************************************)
Workers == 1..Len(wstate)

startByte(w) == byteChunks[w].start
endByte(w) == byteChunks[w].end

\* createReadStream({start, end}) accepts only 0 <= start <= end and throws
\* ERR_OUT_OF_RANGE otherwise
streamRangeValid(w) == startByte(w) >= 0 /\ endByte(w) >= 0 /\ startByte(w) <= endByte(w)

\* the number of bytes the stream delivers: [start, end], cut at the end of the file
streamLength(w) == Max(0, Min(endByte(w), FILE_SIZE - 1) - startByte(w) + 1)

ResultMessage(w, st) ==
    [type |-> "message", error |-> FALSE, rowsProcessed |-> st.rows, stats |-> st.stats]
ErrorMessage == [type |-> "message", error |-> TRUE, rowsProcessed |-> 0, stats |-> << >>]
ErrorEvent == [type |-> "error", error |-> TRUE, rowsProcessed |-> 0, stats |-> << >>]
ExitEvent(code) == [type |-> "exit", error |-> code # 0, rowsProcessed |-> 0, stats |-> << >>]

\* what the catch block and the entry's process.exit(1) leave on the way to the
\* main thread: the posted error message may or may not be delivered before
\* the thread is stopped
CatchOutcomes == { <<ErrorMessage, ExitEvent(1)>>, <<ExitEvent(1)>> }

workerLocal(w) == [stats |-> wstats[w], rows |-> wrows[w], lines |-> wlines[w],
                   buffer |-> wbuffer[w], lineStart |-> 0]

WorkerFailed(w) == wstate[w] \in {"loadFailed", "rangeRejected", "readFailed"}

WorkerAlive(w) == w \in Workers /\ pc \in {"Dispatched", "Reporting", "Done", "Failed"}

\* the worker script cannot be loaded or dies of an uncaught error: the
\* runtime emits 'error' and then 'exit' with a non-zero code
WorkerLoadError(w) ==
    /\ WorkerAlive(w)
    /\ wstate[w] = "spawned"
    /\ wstate' = [wstate EXCEPT ![w] = "loadFailed"]
    /\ events' = [events EXCEPT ![w] = <<ErrorEvent, ExitEvent(1)>>]
    /\ UNCHANGED <<wpos, wbuffer, wstats, wrows, wlines>>
    /\ UNCHANGED <<file, cpuCount, prog, pc, pl, scan>>
    /\ UNCHANGED partVars
    /\ UNCHANGED mainVars

\* createReadStream: the stream is opened, or the range is rejected and the
\* catch block runs
WorkerOpen(w) ==
    /\ WorkerAlive(w)
    /\ wstate[w] = "spawned"
    /\ IF streamRangeValid(w)
       THEN /\ wstate' = [wstate EXCEPT ![w] = "reading"]
            /\ UNCHANGED events
       ELSE /\ wstate' = [wstate EXCEPT ![w] = "rangeRejected"]
            /\ \E out \in CatchOutcomes : events' = [events EXCEPT ![w] = out]
    /\ UNCHANGED <<wpos, wbuffer, wstats, wrows, wlines>>
    /\ UNCHANGED <<file, cpuCount, prog, pc, pl, scan>>
    /\ UNCHANGED partVars
    /\ UNCHANGED mainVars

\* one iteration of `for await (const chunk of stream)`: the stream delivers
\* the next k bytes of the range, at most highWaterMark
WorkerRead(w) ==
    /\ WorkerAlive(w)
    /\ wstate[w] = "reading"
    /\ wpos[w] < streamLength(w)
    /\ \E k \in 1..Min(HighWaterMark, streamLength(w) - wpos[w]) :
          \E st \in {processStreamChunk(wbuffer[w],
                          Slice(file, startByte(w) + wpos[w], startByte(w) + wpos[w] + k),
                          workerLocal(w))} :
              /\ wpos' = [wpos EXCEPT ![w] = @ + k]
              /\ wbuffer' = [wbuffer EXCEPT ![w] = st.buffer]
              /\ wstats' = [wstats EXCEPT ![w] = st.stats]
              /\ wrows' = [wrows EXCEPT ![w] = st.rows]
              /\ wlines' = [wlines EXCEPT ![w] = st.lines]
    /\ UNCHANGED <<wstate, events>>
    /\ UNCHANGED <<file, cpuCount, prog, pc, pl, scan>>
    /\ UNCHANGED partVars
    /\ UNCHANGED mainVars

\* a read of the stream fails: the `for await` throws into the catch block, and
\* the thread's stream, buffer and map are gone with it
WorkerReadError(w) ==
    /\ WorkerAlive(w)
    /\ wstate[w] = "reading"
    /\ wstate' = [wstate EXCEPT ![w] = "readFailed"]
    /\ \E out \in CatchOutcomes : events' = [events EXCEPT ![w] = out]
    /\ wpos' = [wpos EXCEPT ![w] = 0]
    /\ wbuffer' = [wbuffer EXCEPT ![w] = << >>]
    /\ wstats' = [wstats EXCEPT ![w] = << >>]
    /\ wrows' = [wrows EXCEPT ![w] = 0]
    /\ wlines' = [wlines EXCEPT ![w] = << >>]
    /\ UNCHANGED <<file, cpuCount, prog, pc, pl, scan>>
    /\ UNCHANGED partVars
    /\ UNCHANGED mainVars

\* the stream ended: the final line, the result message, and the worker's exit
WorkerFinish(w) ==
    /\ WorkerAlive(w)
    /\ wstate[w] = "reading"
    /\ wpos[w] = streamLength(w)
    /\ \E st \in {processFinalLine(workerLocal(w))} :
           /\ wstats' = [wstats EXCEPT ![w] = st.stats]
           /\ wrows' = [wrows EXCEPT ![w] = st.rows]
           /\ wlines' = [wlines EXCEPT ![w] = st.lines]
           /\ events' = [events EXCEPT ![w] = <<ResultMessage(w, st), ExitEvent(0)>>]
    /\ wstate' = [wstate EXCEPT ![w] = "posted"]
    /\ UNCHANGED <<wpos, wbuffer>>
    /\ UNCHANGED <<file, cpuCount, prog, pc, pl, scan>>
    /\ UNCHANGED partVars
    /\ UNCHANGED mainVars

(***************************************************************************)
(* main.ts processFileInParallel.                                          *)
(***************************************************************************)
\* mutant: the merge assigns the incoming min and max instead of combining them
mergeEntry_Assign(existing, stats) ==
    [sum |-> flAdd(existing.sum, stats.sum), cnt |-> existing.cnt + stats.cnt,
     min |-> stats.min, max |-> stats.max]

\* mutant: Math.min and Math.max are swapped
mergeEntry_Swapped(existing, stats) ==
    [sum |-> flAdd(existing.sum, stats.sum), cnt |-> existing.cnt + stats.cnt,
     min |-> Max(existing.min, stats.min), max |-> Min(existing.max, stats.max)]

\* the else branch of the merge: combine field-wise
mergeEntry(existing, stats) ==
    [sum |-> flAdd(existing.sum, stats.sum), cnt |-> existing.cnt + stats.cnt,
     min |-> Min(existing.min, stats.min), max |-> Max(existing.max, stats.max)]

\* `for (const [station, stats] of Object.entries(result.stats))`
mergeStats(master, stats) ==
    [station \in (DOMAIN master) \cup (DOMAIN stats) |->
        IF station \notin DOMAIN stats THEN master[station]
        ELSE IF station \notin DOMAIN master THEN stats[station]
        ELSE mergeEntry(master[station], stats[station])]

\* mutant: the join waits until every promise is settled, whatever its outcome
joinState_AllSettled(p) ==
    IF \A w \in DOMAIN p : p[w] # "pending" THEN "resolved" ELSE "pending"

\* mutant: the join resolves with the first promise that resolves
joinState_Race(p) ==
    IF \E w \in DOMAIN p : p[w] = "rejected" THEN "rejected"
    ELSE IF \E w \in DOMAIN p : p[w] = "resolved" THEN "resolved"
    ELSE "pending"

\* Promise.all(workers): rejected by the first rejection, resolved when every
\* promise is resolved
joinState(p) ==
    IF \E w \in DOMAIN p : p[w] = "rejected" THEN "rejected"
    ELSE IF \A w \in DOMAIN p : p[w] = "resolved" THEN "resolved"
    ELSE "pending"

\* where the awaiting processFileInParallel goes once the promises are p
afterSettle(p) ==
    IF pc # "Dispatched" THEN pc
    ELSE IF joinState(p) = "rejected" THEN "Failed"
    ELSE IF joinState(p) = "resolved" THEN "Reporting"
    ELSE "Dispatched"

NoResult == [rowsProcessed |-> 0, stats |-> << >>]

\* fileChunks.map(...): one worker and one pending promise per range, then
\* `await Promise.all(workers)`
Dispatch ==
    /\ pc = "Partitioned"
    /\ prog = "main"
    /\ pc' = "Dispatched"
    /\ wstate' = [w \in 1..Len(byteChunks) |-> "spawned"]
    /\ wpos' = [w \in 1..Len(byteChunks) |-> 0]
    /\ wbuffer' = [w \in 1..Len(byteChunks) |-> << >>]
    /\ wstats' = [w \in 1..Len(byteChunks) |-> << >>]
    /\ wrows' = [w \in 1..Len(byteChunks) |-> 0]
    /\ wlines' = [w \in 1..Len(byteChunks) |-> << >>]
    /\ events' = [w \in 1..Len(byteChunks) |-> << >>]
    /\ promise' = [w \in 1..Len(byteChunks) |-> "pending"]
    /\ results' = [w \in 1..Len(byteChunks) |-> NoResult]
    /\ mergeOrder' = << >>
    /\ masterStats' = << >>
    /\ output' = NoOutput
    /\ UNCHANGED <<file, cpuCount, prog, pl, scan>>
    /\ UNCHANGED partVars

\* the main thread runs a handler only between its own turns: not while the
\* continuation of the join is about to run, and not once it has crashed
MainHandles(w, type) ==
    /\ w \in Workers
    /\ pc \in {"Dispatched", "Done", "Failed"}
    /\ events[w] # << >>
    /\ Head(events[w]).type = type

\* mutant: a message without stats is merged as an empty result and resolves
\* the promise
OnMessage_EmptyResult(w) ==
    /\ MainHandles(w, "message")
    /\ events' = [events EXCEPT ![w] = Tail(@)]
    /\ LET result == Head(events[w])
       IN  /\ masterStats' = mergeStats(masterStats, result.stats)
           /\ mergeOrder' = Append(mergeOrder, w)
           /\ promise' = [promise EXCEPT ![w] = IF @ = "pending" THEN "resolved" ELSE @]
           /\ results' = [results EXCEPT ![w] =
                  IF promise[w] = "pending"
                  THEN [rowsProcessed |-> result.rowsProcessed, stats |-> result.stats]
                  ELSE @]
           /\ pc' = afterSettle(promise')
           /\ UNCHANGED output
    /\ UNCHANGED <<wstate, wpos, wbuffer, wstats, wrows, wlines>>
    /\ UNCHANGED <<file, cpuCount, prog, pl, scan>>
    /\ UNCHANGED partVars

\* worker.on("message"): merge the result and resolve the promise.  A message
\* from the worker's catch block has no stats: Object.entries(undefined)
\* throws in the handler and the main thread dies of the uncaught TypeError.
OnMessage(w) ==
    /\ MainHandles(w, "message")
    /\ events' = [events EXCEPT ![w] = Tail(@)]
    /\ LET result == Head(events[w])
       IN  IF result.error
           THEN /\ pc' = "Crashed"
                /\ UNCHANGED mainVars
           ELSE /\ masterStats' = mergeStats(masterStats, result.stats)
                /\ mergeOrder' = Append(mergeOrder, w)
                /\ promise' = [promise EXCEPT ![w] = IF @ = "pending" THEN "resolved" ELSE @]
                /\ results' = [results EXCEPT ![w] =
                       IF promise[w] = "pending"
                       THEN [rowsProcessed |-> result.rowsProcessed, stats |-> result.stats]
                       ELSE @]
                /\ pc' = afterSettle(promise')
                /\ UNCHANGED output
    /\ UNCHANGED <<wstate, wpos, wbuffer, wstats, wrows, wlines>>
    /\ UNCHANGED <<file, cpuCount, prog, pl, scan>>
    /\ UNCHANGED partVars

\* worker.on("error"): reject the promise
OnError(w) ==
    /\ MainHandles(w, "error")
    /\ events' = [events EXCEPT ![w] = Tail(@)]
    /\ promise' = [promise EXCEPT ![w] = IF @ = "pending" THEN "rejected" ELSE @]
    /\ pc' = afterSettle(promise')
    /\ UNCHANGED <<mergeOrder, masterStats, results, output>>
    /\ UNCHANGED <<wstate, wpos, wbuffer, wstats, wrows, wlines>>
    /\ UNCHANGED <<file, cpuCount, prog, pl, scan>>
    /\ UNCHANGED partVars

\* worker.on("exit"): reject the promise when the code is not 0
OnExit(w) ==
    /\ MainHandles(w, "exit")
    /\ events' = [events EXCEPT ![w] = Tail(@)]
    /\ promise' = [promise EXCEPT ![w] =
           IF Head(events[w]).error /\ @ = "pending" THEN "rejected" ELSE @]
    /\ pc' = afterSettle(promise')
    /\ UNCHANGED <<mergeOrder, masterStats, results, output>>
    /\ UNCHANGED <<wstate, wpos, wbuffer, wstats, wrows, wlines>>
    /\ UNCHANGED <<file, cpuCount, prog, pl, scan>>
    /\ UNCHANGED partVars

(***************************************************************************)
(* The report: sorted keys, `key:min/mean/max` with toFixed(1), joined and *)
(* braced, and the first OUTPUT_SLICE characters printed.                  *)
(***************************************************************************)
OUTPUT_SLICE == 1000

RECURSIVE LexLess(_, _)
\* Array.prototype.sort's default order on keys: code unit by code unit, a
\* proper prefix first
LexLess(a, b) ==
    IF Len(b) = 0 THEN FALSE
    ELSE IF Len(a) = 0 THEN TRUE
    ELSE IF a[1] # b[1] THEN a[1] < b[1]
    ELSE LexLess(Tail(a), Tail(b))

RECURSIVE SortKeys(_)
\* the keys of S in ascending order
SortKeys(S) ==
    IF S = {} THEN << >>
    ELSE LET least == CHOOSE a \in S : \A b \in S \ {a} : LexLess(a, b)
         IN  <<least>> \o SortKeys(S \ {least})

sortedStations == SortKeys(DOMAIN masterStats)

RECURSIVE DigitsOf(_)
\* the decimal digits of a natural number
DigitsOf(n) == IF n < 10 THEN <<ASCII_0 + n>> ELSE DigitsOf(n \div 10) \o <<ASCII_0 + (n % 10)>>

\* x.toFixed(1): the number of tenths nearest to the exact absolute value of
\* x, the larger one on a tie, with the sign of x
toFixed1(x) ==
    LET abs == IF x < 0 THEN -x ELSE x
        n == (2 * abs * 10 + Scale) \div (2 * Scale)
        digits == DigitsOf(n \div 10) \o <<ASCII_DECIMAL, ASCII_0 + (n % 10)>>
    IN  IF x < 0 THEN <<ASCII_MINUS>> \o digits ELSE digits

\* `${station}:${min.toFixed(1)}/${mean.toFixed(1)}/${max.toFixed(1)}`, with
\* mean = sum / cnt; 58 is ':' and 47 is '/'
outputPart(master, station) ==
    LET stats == master[station]
        mean == flDiv(stats.sum, stats.cnt)
    IN  station \o <<58>> \o toFixed1(stats.min) \o <<47>>
                \o toFixed1(mean) \o <<47>> \o toFixed1(stats.max)

RECURSIVE JoinParts(_, _)
\* outputParts.join(sep)
JoinParts(parts, sep) ==
    IF Len(parts) = 0 THEN << >>
    ELSE IF Len(parts) = 1 THEN parts[1]
    ELSE parts[1] \o sep \o JoinParts(Tail(parts), sep)

\* `{${outputParts.join(',\n')}}` for the map master; 123 is '{', 125 is '}',
\* 44 is ','
finalOutputOf(master) ==
    LET stations == SortKeys(DOMAIN master)
        outputParts == [k \in 1..Len(stations) |-> outputPart(master, stations[k])]
    IN  <<123>> \o JoinParts(outputParts, <<44, CHAR_NEWLINE>>) \o <<125>>

finalOutput == finalOutputOf(masterStats)

\* text.slice(0, 1000)
sliceOutput(text) == Slice(text, 0, Min(OUTPUT_SLICE, Len(text)))

\* finalOutput.slice(0, 1000)
printedOutput == sliceOutput(finalOutput)

RECURSIVE SumRows(_)
\* `results.reduce((sum, r) => sum + r.rowsProcessed, 0)` over results 1..n
SumRows(n) == IF n = 0 THEN 0 ELSE SumRows(n - 1) + results[n].rowsProcessed

totalRows == SumRows(Len(results))

\* the continuation of `await Promise.all(workers)`: the report is built from
\* masterStats and printed; output.stations records the order in which the
\* loop over sortedStations pushed the entries
Report ==
    /\ pc = "Reporting"
    /\ output' = [printed |-> TRUE, stations |-> sortedStations, text |-> printedOutput]
    /\ pc' = "Done"
    /\ UNCHANGED <<promise, mergeOrder, masterStats, results>>
    /\ UNCHANGED <<file, cpuCount, prog, pl, scan>>
    /\ UNCHANGED partVars
    /\ UNCHANGED workerVars

(***************************************************************************)
(* The pipeline specification: main.ts with worker.ts on every file of up  *)
(* to MaxLines lines drawn from PipelineLines, with or without a final     *)
(* newline, and every worker count up to MaxCpu.                           *)
(***************************************************************************)
\* "a;1", "a;-2", "b;z" (no number), "x" (no separator)
PipelineLines ==
    { <<97, CHAR_SEMICOLON, 49>>,
      <<97, CHAR_SEMICOLON, ASCII_MINUS, 50>>,
      <<98, CHAR_SEMICOLON, 122>>,
      <<120>> }

RECURSIVE JoinLines(_)
\* the lines, each but the last followed by a newline
JoinLines(lines) ==
    IF Len(lines) = 0 THEN << >>
    ELSE IF Len(lines) = 1 THEN lines[1]
    ELSE lines[1] \o <<CHAR_NEWLINE>> \o JoinLines(Tail(lines))

PipelineFiles ==
    {<< >>} \cup
    UNION { {JoinLines(ls), JoinLines(ls) \o <<CHAR_NEWLINE>>} :
                ls \in SeqsUpTo(PipelineLines, MaxLines) \ {<< >>} }

Init ==
    /\ file \in PipelineFiles
    /\ cpuCount \in 1..MaxCpu
    /\ prog = "main"
    /\ pl = NoCall
    /\ scan = NoScan
    /\ IdleRest

Next ==
    \/ CreateChunksBegin
    \/ ChunkIteration
    \/ Dispatch
    \/ \E w \in Workers : WorkerLoadError(w)
    \/ \E w \in Workers : WorkerOpen(w)
    \/ \E w \in Workers : WorkerRead(w)
    \/ \E w \in Workers : WorkerReadError(w)
    \/ \E w \in Workers : WorkerFinish(w)
    \/ \E w \in Workers : OnMessage(w)
    \/ \E w \in Workers : OnError(w)
    \/ \E w \in Workers : OnExit(w)
    \/ Report

Spec == Init /\ [][Next]_vars

(***************************************************************************)
(* The pipeline under fair scheduling: the main thread's event loop runs   *)
(* the next synchronous step or handler whenever there is one, and every   *)
(* worker thread that can take a step eventually takes one.                *)
(***************************************************************************)
MainStep ==
    \/ CreateChunksBegin
    \/ ChunkIteration
    \/ Dispatch
    \/ \E w \in Workers : OnMessage(w) \/ OnError(w) \/ OnExit(w)
    \/ Report

WorkerStep(w) ==
    \/ WorkerLoadError(w)
    \/ WorkerOpen(w)
    \/ WorkerRead(w)
    \/ WorkerReadError(w)
    \/ WorkerFinish(w)

Fairness ==
    /\ WF_vars(MainStep)
    /\ \A w \in 1..MaxCpu : WF_vars(WorkerStep(w))

SpecLive == Init /\ [][Next]_vars /\ Fairness

(***************************************************************************)
(* The report specification: main.ts with worker.ts and a single worker    *)
(* (one partition) on the files of ReportFiles: the example of the         *)
(* documentation, every file of up to MaxReportLines lines whose keys are  *)
(* drawn from ReportKeys, and a file whose report is longer than           *)
(* OUTPUT_SLICE characters.                                                *)
(***************************************************************************)
\* most lines of a file drawn from ReportKeys
MaxReportLines == 2
\* the length of the keys of LongFile, less their last byte
LongKeyLen == 20
\* the number of lines of LongFile
LongFileLines == 30

\* "Tel Aviv;33.9\nDhaka;36.9\nTel Aviv;30.1\n"
ExampleFile ==
    <<84, 101, 108, 32, 65, 118, 105, 118, CHAR_SEMICOLON, 51, 51, ASCII_DECIMAL, 57, CHAR_NEWLINE,
      68, 104, 97, 107, 97, CHAR_SEMICOLON, 51, 54, ASCII_DECIMAL, 57, CHAR_NEWLINE,
      84, 101, 108, 32, 65, 118, 105, 118, CHAR_SEMICOLON, 51, 48, ASCII_DECIMAL, 49, CHAR_NEWLINE>>

\* "X;-5.0\nX;0.0\nX;-10.0\n"
NegativeFile ==
    <<88, CHAR_SEMICOLON, ASCII_MINUS, 53, ASCII_DECIMAL, ASCII_0, CHAR_NEWLINE,
      88, CHAR_SEMICOLON, ASCII_0, ASCII_DECIMAL, ASCII_0, CHAR_NEWLINE,
      88, CHAR_SEMICOLON, ASCII_MINUS, 49, ASCII_0, ASCII_DECIMAL, ASCII_0, CHAR_NEWLINE>>

\* the example file without its final newline
UnterminatedFile == SubSeq(ExampleFile, 1, Len(ExampleFile) - 1)

\* keys as the bytes of their UTF-8 encoding: "B", "a", "ab", U+00E9 (two
\* bytes), U+FF61 (three bytes), U+10000 (four bytes)
ReportKeys ==
    { <<66>>, <<97>>, <<97, 98>>, <<195, 169>>, <<239, 189, 161>>, <<240, 144, 128, 128>> }

\* the lines "key;1" and "key;-2.5"
ReportLines ==
    {key \o <<CHAR_SEMICOLON, 49>> : key \in ReportKeys}
        \cup {key \o <<CHAR_SEMICOLON, ASCII_MINUS, 50, ASCII_DECIMAL, 53>> : key \in ReportKeys}

RECURSIVE LongLines(_)
\* n lines "a...ak;1\n" with keys of LongKeyLen + 1 bytes that differ in the last
LongLines(n) ==
    IF n = 0 THEN << >>
    ELSE LongLines(n - 1) \o [j \in 1..LongKeyLen |-> 97] \o <<97 + n, CHAR_SEMICOLON, 49, CHAR_NEWLINE>>

LongFile == LongLines(LongFileLines)

ReportFiles ==
    {ExampleFile, UnterminatedFile, NegativeFile, LongFile} \cup
    {JoinLines(ls) \o <<CHAR_NEWLINE>> : ls \in SeqsUpTo(ReportLines, MaxReportLines) \ {<< >>}}

InitReport ==
    /\ file \in ReportFiles
    /\ cpuCount = 1
    /\ prog = "main"
    /\ pl = NoCall
    /\ scan = NoScan
    /\ IdleRest

SpecReport == InitReport /\ [][Next]_vars

(***************************************************************************)
(* The rerun specification: main.ts with worker.ts on a file of four lines *)
(* of one key, with one to MaxCpuRuns workers.                             *)
(***************************************************************************)
\* largest worker count of the rerun specification
MaxCpuRuns == 3

\* "X;0.1\nX;0.2\nX;0.3\nX;0.0\n"
TenthsFile ==
    <<88, CHAR_SEMICOLON, ASCII_0, ASCII_DECIMAL, 49, CHAR_NEWLINE,
      88, CHAR_SEMICOLON, ASCII_0, ASCII_DECIMAL, 50, CHAR_NEWLINE,
      88, CHAR_SEMICOLON, ASCII_0, ASCII_DECIMAL, 51, CHAR_NEWLINE,
      88, CHAR_SEMICOLON, ASCII_0, ASCII_DECIMAL, ASCII_0, CHAR_NEWLINE>>

InitRuns ==
    /\ file = TenthsFile
    /\ cpuCount \in 1..MaxCpuRuns
    /\ prog = "main"
    /\ pl = NoCall
    /\ scan = NoScan
    /\ IdleRest

SpecRuns == InitRuns /\ [][Next]_vars

(***************************************************************************)
(* The scanner specification: one call of getPreviousNewlinePosition, in   *)
(* its first or its second variant, on every file of newline and           *)
(* non-newline bytes up to MaxFileLen and every offset from -1 to the      *)
(* file's size.                                                            *)
(***************************************************************************)
InitScan ==
    /\ file \in SeqsUpTo({CHAR_NEWLINE, 97}, MaxFileLen)
    /\ \E variant \in {"first", "second"} :
       \E offset \in (-1)..Len(file) :
           scan = [done |-> FALSE, variant |-> variant, offset |-> offset, result |-> NotFound]
    /\ cpuCount = 1
    /\ prog = "main"
    /\ pl = NoCall
    /\ IdleRest

\* the call itself
ScanCall ==
    /\ ~scan.done
    /\ scan' = [scan EXCEPT !.done = TRUE,
                            !.result = IF scan.variant = "first"
                                       THEN getPreviousNewlinePosition(file, scan.offset)
                                       ELSE getPreviousNewlinePosition2(file, scan.offset)]
    /\ UNCHANGED <<file, cpuCount, prog, pc, pl>>
    /\ UNCHANGED partVars
    /\ UNCHANGED workerVars
    /\ UNCHANGED mainVars

NextScan == ScanCall

SpecScan == InitScan /\ [][NextScan]_vars

(***************************************************************************)
(* The line specification: one call of processLineFromBuffer, as           *)
(* processFileChunk makes it, on every line of up to MaxLineLen bytes over *)
(* LineAlphabet.  The line is either a complete line of the buffer, after  *)
(* an earlier line and before its newline, or the final unterminated line. *)
(***************************************************************************)
\* 'a', ';', '1', '-', '.'
LineAlphabet == {97, CHAR_SEMICOLON, 49, ASCII_MINUS, ASCII_DECIMAL}

\* "b;1\n": an earlier line of the same buffer
EarlierLine == <<98, CHAR_SEMICOLON, 49, CHAR_NEWLINE>>

\* the stats maps a call may start from: none, and two with the key "a"
PriorStats ==
    { << >>,
      MapSet(<< >>, <<97>>, [sum |-> 3 * Scale, cnt |-> 2, min |-> Scale, max |-> 2 * Scale]),
      MapSet(<< >>, <<97>>, [sum |-> -(4 * Scale), cnt |-> 1, min |-> -(4 * Scale), max |-> -(4 * Scale)]) }

\* the line a call is about
LineOf(call) == Slice(call.buffer, call.start, call.start + call.length)

InitLine ==
    /\ \E line \in SeqsUpTo(LineAlphabet, MaxLineLen) \ {<< >>} :
       \E stats \in PriorStats :
          \/ pl = [done |-> FALSE, buffer |-> EarlierLine \o line \o <<CHAR_NEWLINE>>,
                   start |-> Len(EarlierLine), length |-> Len(line),
                   stats |-> stats, after |-> stats]
          \/ pl = [done |-> FALSE, buffer |-> line, start |-> 0, length |-> Len(line),
                   stats |-> stats, after |-> stats]
    /\ scan = NoScan
    /\ file = << >>
    /\ cpuCount = 1
    /\ prog = "main"
    /\ IdleRest

\* the call itself
ProcessLine ==
    /\ ~pl.done
    /\ pl' = [pl EXCEPT !.done = TRUE,
                        !.after = processLineFromBuffer(pl.buffer, pl.start, pl.length, pl.stats)]
    /\ UNCHANGED <<file, cpuCount, prog, pc, scan>>
    /\ UNCHANGED partVars
    /\ UNCHANGED workerVars
    /\ UNCHANGED mainVars

NextLine == ProcessLine

SpecLine == InitLine /\ [][NextLine]_vars

(***************************************************************************)
(* The value specification: one call of processLineFromBuffer on a line    *)
(* "a;value" for every value field of the documented shape with up to      *)
(* MaxIntDigits integer digits and up to MaxFracDigits fractional digits   *)
(* drawn from ValueDigits, with or without a minus.  The record ends in a  *)
(* newline or in a carriage return and a newline, in which case the        *)
(* carriage return is part of the line processFileChunk hands over; it is  *)
(* a complete line of the buffer or the final unterminated line.           *)
(***************************************************************************)
\* most integer digits of a value
MaxIntDigits == 1
\* most fractional digits of a value
MaxFracDigits == 2

\* '0', '1', '5', '9'
ValueDigits == {ASCII_0, 49, 53, ASCII_9}

ValueFields ==
    LET ints == SeqsUpTo(ValueDigits, MaxIntDigits) \ {<< >>}
        fracs == {<< >>} \cup {<<ASCII_DECIMAL>> \o f : f \in SeqsUpTo(ValueDigits, MaxFracDigits) \ {<< >>}}
        plain == {n \o f : n \in ints, f \in fracs}
    IN  plain \cup {<<ASCII_MINUS>> \o v : v \in plain}

InitValue ==
    /\ \E value \in ValueFields :
       \E ending \in {<< >>, <<13>>} :                      \* 13: '\r'
       \E line \in {<<97, CHAR_SEMICOLON>> \o value \o ending} :
       \E stats \in PriorStats :
          \/ pl = [done |-> FALSE, buffer |-> EarlierLine \o line \o <<CHAR_NEWLINE>>,
                   start |-> Len(EarlierLine), length |-> Len(line),
                   stats |-> stats, after |-> stats]
          \/ pl = [done |-> FALSE, buffer |-> line, start |-> 0, length |-> Len(line),
                   stats |-> stats, after |-> stats]
    /\ scan = NoScan
    /\ file = << >>
    /\ cpuCount = 1
    /\ prog = "main"
    /\ IdleRest

SpecValue == InitValue /\ [][NextLine]_vars

(***************************************************************************)
(* Claims about the parser.                                                *)
(***************************************************************************)
\* the largest element of a non-empty set of integers
Largest(S) == CHOOSE x \in S : \A y \in S : y <= x

\* the smallest element of a non-empty set of integers
Smallest(S) == CHOOSE x \in S : \A y \in S : x <= y

\* the number of bytes of q equal to b
CountByte(q, b) == Cardinality({k \in 1..Len(q) : q[k] = b})

AllDigits(q) == Len(q) >= 1 /\ \A k \in 1..Len(q) : isDigit(q[k])

\* the documented shape of a value: optional minus, one or more digits,
\* optionally one decimal point followed by one or more digits
ValidDecimal(q) ==
    LET body == IF Len(q) >= 1 /\ q[1] = ASCII_MINUS THEN Tail(q) ELSE q
    IN  \/ AllDigits(body)
        \/ \E d \in 1..Len(body) :
              /\ body[d] = ASCII_DECIMAL
              /\ AllDigits(SubSeq(body, 1, d - 1))
              /\ AllDigits(SubSeq(body, d + 1, Len(body)))

\* the value field of a line with at least one separator: the bytes after the
\* first separator
ValueField(line) ==
    LET sep == CHOOSE k \in 1..Len(line) :
                   line[k] = CHAR_SEMICOLON /\ \A j \in 1..(k - 1) : line[j] # CHAR_SEMICOLON
    IN  SubSeq(line, sep + 1, Len(line))

\* C7: processing a line with no field separator leaves the stats map as it
\* was: no key is created and no entry of an earlier valid line is changed.
C7_NoSeparatorSkipped ==
    (pl.done /\ CountByte(LineOf(pl), CHAR_SEMICOLON) = 0) => pl.after = pl.stats

\* C7 witness: a separator-less line was processed on top of a non-empty map.
C7_Witness ==
    /\ pl.done
    /\ CountByte(LineOf(pl), CHAR_SEMICOLON) = 0
    /\ pl.stats # << >>
    /\ pl.start > 0

\* C8: processing a line with more than one field separator leaves the stats
\* map as it was.
C8_TwoSeparatorsSkipped ==
    (pl.done /\ CountByte(LineOf(pl), CHAR_SEMICOLON) > 1) => pl.after = pl.stats

\* C9: processing a line with one separator whose value field is not a valid
\* signed decimal leaves the stats map as it was.
C9_BadValueSkipped ==
    (/\ pl.done
     /\ CountByte(LineOf(pl), CHAR_SEMICOLON) = 1
     /\ ~ValidDecimal(ValueField(LineOf(pl)))) => pl.after = pl.stats

(***************************************************************************)
(* Claims about the pipeline.                                              *)
(***************************************************************************)
RECURSIVE SplitLines(_, _)
\* the newline-delimited lines of f, the line being built in cur
SplitLines(f, cur) ==
    IF Len(f) = 0 THEN IF Len(cur) > 0 THEN <<cur>> ELSE << >>
    ELSE IF f[1] = CHAR_NEWLINE
         THEN (IF Len(cur) > 0 THEN <<cur>> ELSE << >>) \o SplitLines(Tail(f), << >>)
         ELSE SplitLines(Tail(f), Append(cur, f[1]))

\* the non-empty lines of the file
FileLines == SplitLines(file, << >>)

\* a syntactically valid line: exactly one separator and a value of the
\* documented shape
ValidLine(line) ==
    /\ CountByte(line, CHAR_SEMICOLON) = 1
    /\ ValidDecimal(ValueField(line))

\* the key of a line with a separator: the bytes before the first separator
KeyField(line) == SubSeq(line, 1, Len(line) - Len(ValueField(line)) - 1)

\* the number of valid lines of the file that bear key k
ValidCount(k) ==
    Cardinality({j \in 1..Len(FileLines) : ValidLine(FileLines[j]) /\ KeyField(FileLines[j]) = k})

ValidKeys == {KeyField(FileLines[j]) : j \in {n \in 1..Len(FileLines) : ValidLine(FileLines[n])}}

MergedCount(k) == IF k \in DOMAIN masterStats THEN masterStats[k].cnt ELSE 0

\* C3: after a full run the merged count of every key is the number of
\* syntactically valid lines of the file that bear the key.
C3_CountsValidLines ==
    pc = "Done" => \A k \in ValidKeys \cup DOMAIN masterStats : MergedCount(k) = ValidCount(k)

RECURSIVE FoldResults(_)
\* the results of workers 1..n merged in index order
FoldResults(n) == IF n = 0 THEN << >> ELSE mergeStats(FoldResults(n - 1), results[n].stats)

\* C4: when all workers have reported, the merged map is the same whatever
\* the order in which their result messages were handled: it is the map that
\* merging the results in index order gives.
C4_OrderIndependent ==
    pc \in {"Reporting", "Done"} => masterStats = FoldResults(Len(results))

\* C4 witness: a finished run in which worker 2 was merged before worker 1 and
\* the two results hold a common key with different minima.
C4_Witness ==
    /\ pc = "Done"
    /\ mergeOrder = <<2, 1>>
    /\ \E k \in (DOMAIN results[1].stats) \cap (DOMAIN results[2].stats) :
          results[1].stats[k].min # results[2].stats[k].min

\* C5: once a worker has failed no report is printed and the run does not go
\* on to the report; when the failed worker's events have all been handled the
\* run has failed.
C5_FailureNoReport ==
    \A w \in Workers :
        WorkerFailed(w) =>
            /\ ~output.printed
            /\ pc \notin {"Reporting", "Done"}
            /\ events[w] = << >> => pc \in {"Failed", "Crashed"}

\* C5 witness: a run failed by a worker's non-zero exit after another worker's
\* result had been merged.
C5_Witness ==
    /\ pc = "Failed"
    /\ mergeOrder # << >>
    /\ \E w \in Workers : WorkerFailed(w) /\ events[w] = << >>

\* the number of times worker w's result was merged
MergesOf(w) == Cardinality({j \in 1..Len(mergeOrder) : mergeOrder[j] = w})

\* C6: the report is built and printed only when every dispatched worker has
\* posted its result and that result has been merged exactly once.
C6_ReportAfterAllMerged ==
    (pc \in {"Reporting", "Done"} \/ output.printed) =>
        /\ Len(wstate) = Len(byteChunks)
        /\ \A w \in Workers :
              /\ wstate[w] = "posted"
              /\ promise[w] = "resolved"
              /\ MergesOf(w) = 1

\* C6 witness: a report printed by a run of two workers.
C6_Witness ==
    /\ output.printed
    /\ Len(wstate) = 2

\* C10: on a zero-length file no worker is handed a range it cannot read: no
\* worker fails on its range, so the run can complete with the report `{}`.
C10_EmptyFileSucceeds ==
    FILE_SIZE = 0 => \A w \in Workers : wstate[w] # "rangeRejected"

(***************************************************************************)
(* Claims about the partition aggregator.                                  *)
(***************************************************************************)
RECURSIVE DigitsValue(_)
\* the natural number written by the digit bytes of q, other bytes skipped
DigitsValue(q) ==
    IF Len(q) = 0 THEN 0
    ELSE LET front == DigitsValue(SubSeq(q, 1, Len(q) - 1))
             last == q[Len(q)]
         IN  IF isDigit(last) THEN front * 10 + (last - ASCII_0) ELSE front

\* the number a value field of the documented shape denotes: its digits as an
\* integer over the power of ten of its fractional digits, as the nearest
\* number, negated after a minus
DecimalValue(q) ==
    LET point == {d \in 1..Len(q) : q[d] = ASCII_DECIMAL}
        fraction == IF point = {} THEN 0 ELSE Len(q) - (CHOOSE d \in point : TRUE)
        magnitude == flDiv(DigitsValue(q) * Scale, 10 ^ fraction)
    IN  IF q[1] = ASCII_MINUS THEN -magnitude ELSE magnitude

\* the key of a valid line as the worker's map holds it
LineKey(line) == utf8Decode(KeyField(line), 0)

LineValue(line) == DecimalValue(ValueField(line))

RECURSIVE SumOfKey(_, _, _)
\* the values of the first n lines that bear key k, added up in line order
SumOfKey(lines, k, n) ==
    IF n = 0 THEN 0
    ELSE IF LineKey(lines[n]) = k
         THEN flAdd(SumOfKey(lines, k, n - 1), LineValue(lines[n]))
         ELSE SumOfKey(lines, k, n - 1)

\* the entry of key k after the lines: their number, sum, smallest and largest value
EntryOfKey(lines, k) ==
    LET values == {LineValue(lines[j]) : j \in {n \in 1..Len(lines) : LineKey(lines[n]) = k}}
    IN  [sum |-> SumOfKey(lines, k, Len(lines)),
         cnt |-> Cardinality({n \in 1..Len(lines) : LineKey(lines[n]) = k}),
         min |-> Smallest(values),
         max |-> Largest(values)]

\* C19: when the lines a worker has processed are all valid, its map holds
\* exactly their keys and, for each key, the number of its lines, the sum of
\* their values, the smallest and the largest value; an entry starts from
\* its first value, not from zero.
C19_StatsOfValidLines ==
    \A w \in Workers :
        (\A j \in 1..Len(wlines[w]) : ValidLine(wlines[w][j])) =>
            /\ DOMAIN wstats[w] = {LineKey(wlines[w][j]) : j \in 1..Len(wlines[w])}
            /\ \A k \in DOMAIN wstats[w] : wstats[w][k] = EntryOfKey(wlines[w], k)

\* C19 witness: a worker has processed two or more valid lines of a key whose
\* values are all negative, and the key's max is negative.
C19_Witness ==
    \E w \in Workers :
        /\ \A j \in 1..Len(wlines[w]) : ValidLine(wlines[w][j])
        /\ \E k \in DOMAIN wstats[w] : wstats[w][k].cnt >= 2 /\ wstats[w][k].max < 0

\* every entry of the map has a count of at least one and min <= max
WellFormedStats(stats) ==
    \A k \in DOMAIN stats : stats[k].cnt >= 1 /\ stats[k].min <= stats[k].max

\* C20: in every reachable state every entry of every worker's map, of every
\* posted result and of the merged map has count >= 1 and min <= max.
C20_StatsWellFormed ==
    /\ WellFormedStats(masterStats)
    /\ \A w \in Workers :
          /\ WellFormedStats(wstats[w])
          /\ WellFormedStats(results[w].stats)
          /\ \A e \in 1..Len(events[w]) : WellFormedStats(events[w][e].stats)

\* C20 witness: two workers' results were merged into an entry whose min is
\* below its max.
C20_Witness ==
    /\ Len(mergeOrder) = 2
    /\ \E k \in DOMAIN masterStats :
          /\ masterStats[k].min < masterStats[k].max
          /\ \A w \in Workers : k \in DOMAIN results[w].stats

\* C22: for a line whose value field has the documented shape, the number
\* the decoder builds, seen as the entry the line creates for a new key, is
\* the decimal value of the text: the number nearest to it.
C22_DecodesDecimalValue ==
    (/\ pl.done
     /\ ValidLine(LineOf(pl))
     /\ LineKey(LineOf(pl)) \notin DOMAIN pl.stats) =>
        pl.after[LineKey(LineOf(pl))].sum = LineValue(LineOf(pl))

\* the number of fractional digits of a value field
FractionDigits(q) ==
    IF \E d \in 1..Len(q) : q[d] = ASCII_DECIMAL
    THEN Len(q) - (CHOOSE d \in 1..Len(q) : q[d] = ASCII_DECIMAL)
    ELSE 0

\* C22 for values of at most one fractional digit
C22_OneFractionalDigit ==
    (pl.done /\ ValidLine(LineOf(pl)) /\ FractionDigits(ValueField(LineOf(pl))) > 1)
        \/ C22_DecodesDecimalValue

\* a line that ends in a carriage return
EndsInReturn(line) == Len(line) >= 1 /\ line[Len(line)] = 13

\* a line without its last byte
WithoutLast(line) == SubSeq(line, 1, Len(line) - 1)

\* C24: a line that is a valid record followed by a carriage return is
\* aggregated as the record alone is: the map after the call is the map the
\* call on the record without the carriage return gives, its key is the
\* record's key, and for a new key and a value of at most one fractional
\* digit the entry holds the record's decimal value.
C24_ReturnIgnored ==
    (pl.done /\ EndsInReturn(LineOf(pl)) /\ ValidLine(WithoutLast(LineOf(pl)))) =>
        LET record == WithoutLast(LineOf(pl))
            key == LineKey(record)
        IN  /\ pl.after = processLineFromBuffer(record, 0, Len(record), pl.stats)
            /\ DOMAIN pl.after = (DOMAIN pl.stats) \cup {key}
            /\ pl.after[key].cnt = (IF key \in DOMAIN pl.stats THEN pl.stats[key].cnt ELSE 0) + 1
            /\ (key \notin DOMAIN pl.stats /\ FractionDigits(ValueField(record)) <= 1) =>
                   pl.after[key].sum = LineValue(record)

\* C24 witness: a record with a negative value of one fractional digit,
\* ended by a carriage return and a newline, was aggregated into an entry
\* that existed.
C24_Witness ==
    /\ pl.done
    /\ EndsInReturn(LineOf(pl))
    /\ ValidLine(WithoutLast(LineOf(pl)))
    /\ pl.start > 0
    /\ LineKey(WithoutLast(LineOf(pl))) \in DOMAIN pl.stats
    /\ FractionDigits(ValueField(WithoutLast(LineOf(pl)))) = 1
    /\ LineValue(WithoutLast(LineOf(pl))) < 0

(***************************************************************************)
(* Claims about the worker's stream loop.                                  *)
(***************************************************************************)
RECURSIVE LinesFrom(_, _, _)
\* the non-empty lines of q after position lo, in order; E holds the positions
\* at which a line ends: every newline of q and the position after its last byte
LinesFrom(q, E, lo) ==
    IF \A e \in E : e <= lo THEN << >>
    ELSE LET next == Smallest({e \in E : e > lo})
             rest == LinesFrom(q, E, next)
         IN  IF next > lo + 1 THEN <<SubSeq(q, lo + 1, next - 1)>> \o rest ELSE rest

\* the non-empty newline-delimited lines of a byte sequence, an unterminated
\* final line included
LinesOf(q) == LinesFrom(q, {p \in 1..Len(q) : q[p] = CHAR_NEWLINE} \cup {Len(q) + 1}, 0)

\* the bytes of worker w's range the stream has delivered so far
Delivered(w) == Slice(file, startByte(w), startByte(w) + wpos[w])

\* the partial line a worker carries to the next iteration, as a list of
\* zero or one line
Carried(w) == IF Len(wbuffer[w]) > 0 THEN <<wbuffer[w]>> ELSE << >>

\* C23: however the stream splits a worker's range into chunks, the lines the
\* worker has processed, followed by the partial line it carries, are the
\* non-empty newline-delimited lines of the bytes delivered so far, in order;
\* once it has posted, the lines it processed are exactly the non-empty lines
\* of its range, an unterminated final line included.
C23_LinesIndependentOfSplit ==
    \A w \in Workers :
        /\ wstate[w] = "reading" =>
               wlines[w] \o Carried(w) = LinesOf(Delivered(w))
        /\ wstate[w] = "posted" =>
               /\ wpos[w] = streamLength(w)
               /\ wlines[w] = LinesOf(Delivered(w))

\* C23 witness: a worker has posted after processing three lines of a range
\* that does not end in a newline, one of them longer than the stream's
\* largest chunk, so that it was carried across a refill.
C23_Witness ==
    \E w \in Workers :
        /\ wstate[w] = "posted"
        /\ Len(wlines[w]) = 3
        /\ ByteAt(file, endByte(w)) # CHAR_NEWLINE
        /\ \E j \in 1..Len(wlines[w]) : Len(wlines[w][j]) > HighWaterMark

RECURSIVE CountsOver(_, _)
\* the counts of the keys of K in the map, added up
CountsOver(stats, K) ==
    IF K = {} THEN 0
    ELSE LET k == CHOOSE x \in K : TRUE
         IN  stats[k].cnt + CountsOver(stats, K \ {k})

\* the lines of a list that have no field separator
Unseparated(lines) == {j \in 1..Len(lines) : CountByte(lines[j], CHAR_SEMICOLON) = 0}

\* C29: a worker's rowsProcessed is the number of non-empty lines it was
\* handed, whether they were aggregated or dropped: while it reads, the
\* number of lines processed so far; once it has posted, the number of
\* non-empty lines of its range, which is what its result message and its
\* recorded result carry.  The counts of its map add up to the rows less
\* the lines dropped for want of a separator, so the total of the rows of a
\* finished run is at least the sum of the counts of the report.
C29_RowsCountEveryLine ==
    /\ \A w \in Workers :
          /\ wrows[w] = Len(wlines[w])
          /\ CountsOver(wstats[w], DOMAIN wstats[w]) = wrows[w] - Cardinality(Unseparated(wlines[w]))
          /\ wstate[w] = "posted" =>
                 /\ wrows[w] = Len(LinesOf(Slice(file, startByte(w), endByte(w) + 1)))
                 /\ \A e \in 1..Len(events[w]) :
                        events[w][e].type = "message" => events[w][e].rowsProcessed = wrows[w]
                 /\ promise[w] = "resolved" => results[w].rowsProcessed = wrows[w]
    /\ pc \in {"Reporting", "Done"} =>
          /\ totalRows = Len(FileLines)
          /\ totalRows >= CountsOver(masterStats, DOMAIN masterStats)

\* C29 witness: a finished run of two workers whose total of rows is larger
\* than the sum of the counts of its report, which is not empty.
C29_Witness ==
    /\ pc = "Done"
    /\ Len(results) = 2
    /\ masterStats # << >>
    /\ totalRows > CountsOver(masterStats, DOMAIN masterStats)

(***************************************************************************)
(* Claims about the merge.                                                 *)
(***************************************************************************)
\* the workers among the first n merged whose result holds key k
Contributors(k, n) == {mergeOrder[j] : j \in {m \in 1..n : k \in DOMAIN results[mergeOrder[m]].stats}}

RECURSIVE CountOver(_, _)
\* the counts of key k in the results of the workers of W, added up
CountOver(k, W) ==
    IF W = {} THEN 0
    ELSE LET w == CHOOSE x \in W : TRUE
         IN  results[w].stats[k].cnt + CountOver(k, W \ {w})

RECURSIVE SumInOrder(_, _)
\* the sums of key k in the first n merged results, added in merge order: the
\* first one as it is, every later one added to the sum so far
SumInOrder(k, n) ==
    IF n = 0 THEN 0
    ELSE LET stats == results[mergeOrder[n]].stats
         IN  IF k \notin DOMAIN stats THEN SumInOrder(k, n - 1)
             ELSE IF Contributors(k, n - 1) = {} THEN stats[k].sum
             ELSE flAdd(SumInOrder(k, n - 1), stats[k].sum)

\* C21: the merged map holds exactly the keys of the merged results; a key
\* that one result holds has a copy of that result's entry; otherwise the
\* entry is combined field-wise: its count is the sum of the workers' counts,
\* its sum their sums added in merge order, its min is <= every worker's min
\* and equal to one of them, its max is >= every worker's max and equal to one
\* of them.  The results themselves are left as the workers posted them.
C21_MergeFieldWise ==
    LET n == Len(mergeOrder)
    IN  /\ DOMAIN masterStats = UNION {DOMAIN results[mergeOrder[j]].stats : j \in 1..n}
        /\ \A j \in 1..n : results[mergeOrder[j]].stats = wstats[mergeOrder[j]]
        /\ \A k \in DOMAIN masterStats :
              LET W == Contributors(k, n)
              IN  /\ masterStats[k].cnt = CountOver(k, W)
                  /\ masterStats[k].sum = SumInOrder(k, n)
                  /\ \A w \in W : masterStats[k].min <= results[w].stats[k].min
                  /\ \A w \in W : masterStats[k].max >= results[w].stats[k].max
                  /\ \E w \in W : masterStats[k].min = results[w].stats[k].min
                  /\ \E w \in W : masterStats[k].max = results[w].stats[k].max
                  /\ \A w \in W : W = {w} => masterStats[k] = results[w].stats[k]

\* C21 witness: two results were merged; they share a key, and the merged min
\* is below the min of the result merged second.
C21_Witness ==
    /\ Len(mergeOrder) = 2
    /\ \E k \in DOMAIN masterStats :
          /\ Contributors(k, 2) = {1, 2}
          /\ masterStats[k].min < results[mergeOrder[2]].stats[k].min

(***************************************************************************)
(* Claims about the join.                                                  *)
(***************************************************************************)
\* worker v is not cancelled: its next step can be taken
KeepsRunning(v) ==
    /\ wstate[v] = "spawned" => ENABLED WorkerOpen(v)
    /\ wstate[v] = "reading" => ENABLED (WorkerRead(v) \/ WorkerFinish(v))

\* a result message of worker v that waits to be handled is merged into the
\* global map when it is handled
StillMerged(v) ==
    (events[v] # << >> /\ Head(events[v]).type = "message" /\ ~Head(events[v]).error) =>
        ENABLED (OnMessage(v) /\ masterStats' = mergeStats(masterStats, Head(events[v]).stats)
                              /\ mergeOrder' = Append(mergeOrder, v))

\* after a failure the siblings keep running, their results are still merged
\* and no report is printed
OrphansGoOn ==
    /\ \A v \in Workers : KeepsRunning(v) /\ StillMerged(v)
    /\ ~output.printed

\* C25: when one worker, the first and only one, has failed and the main
\* thread is no longer waiting on the join, the join has been rejected (the
\* run is Failed, whatever the state of the other workers); the other workers
\* are not cancelled, the result messages they post are still merged into the
\* global map, and no report is printed.
C25_AbortAndOrphans ==
    (/\ pc # "Dispatched"
     /\ \E w \in Workers : WorkerFailed(w) /\ \A v \in Workers \ {w} : ~WorkerFailed(v)) =>
        /\ pc = "Failed"
        /\ OrphansGoOn

\* C25 where the join was rejected: a rejected promise means the run is
\* Failed or the main thread has crashed, and in a Failed run the siblings go on
C25_WhenRejected ==
    /\ (\E w \in Workers : promise[w] = "rejected") => pc \in {"Failed", "Crashed"}
    /\ pc = "Failed" => OrphansGoOn

\* a worker that is still running: it has not posted its result and not failed
StillRunning(w) == wstate[w] \in {"spawned", "reading"}

\* C26: merging is a phase of its own after the workers have finished, the
\* single synchronization point: no result has been merged into the global
\* map while a worker is still running.
C26_MergeAfterWorkers ==
    mergeOrder # << >> => \A w \in Workers : ~StillRunning(w)

\* the orchestrator's positions in the model, in the order of a run that
\* succeeds; "Partitioned" is the return of createChunks
PcRank(p) ==
    CASE p = "Idle" -> 0
      [] p = "Partitioning" -> 1
      [] p = "Partitioned" -> 2
      [] p = "Dispatched" -> 3
      [] p = "Reporting" -> 4
      [] p = "Done" -> 5
      [] OTHER -> 6

\* the other half of C26: a step moves the orchestrator to the next position
\* of the order, or to Failed or Crashed from Dispatched or Failed
C26_StatesInOrder ==
    [][\/ pc' = pc
       \/ PcRank(pc') = PcRank(pc) + 1 /\ PcRank(pc') <= 5
       \/ pc \in {"Dispatched", "Failed"} /\ pc' \in {"Failed", "Crashed"}]_vars

\* C28: a message from a worker's error path is not taken for a result: a
\* worker that failed never has its promise resolved, no result is recorded
\* for it and nothing of it is merged; once the main thread has handled such
\* a message the global map is still the merge of the results of the workers
\* that succeeded.
C28_ErrorMessageNotAResult ==
    /\ \A w \in Workers :
          WorkerFailed(w) =>
              /\ promise[w] # "resolved"
              /\ results[w] = NoResult
              /\ MergesOf(w) = 0
    /\ \A j \in 1..Len(mergeOrder) : wstate[mergeOrder[j]] = "posted"
    /\ DOMAIN masterStats = UNION {DOMAIN wstats[mergeOrder[j]] : j \in 1..Len(mergeOrder)}

\* C28 witness: the main thread has handled the error message of a failed
\* worker after it had merged the result of another worker.
C28_Witness ==
    /\ pc = "Crashed"
    /\ masterStats # << >>
    /\ \E w \in Workers :
          /\ WorkerFailed(w)
          /\ events[w] = <<ExitEvent(1)>>
          /\ promise[w] = "pending"

\* C27: every run eventually ends in Done, with the report printed, or in
\* Failed: the partitioning ends, every worker's promise is settled and the
\* join does not wait forever.
C27_EndsDoneOrFailed ==
    <>(pc \in {"Failed"} \/ (pc = "Done" /\ output.printed))

\* a run can stop only at an end: in Done, in Failed, or with the main thread
\* crashed; a state with no step to take is one of these
C27_StopsOnlyAtEnd ==
    (~ENABLED Next) => (pc \in {"Failed", "Crashed"} \/ (pc = "Done" /\ output.printed))

(***************************************************************************)
(* Claims about the report.                                                *)
(***************************************************************************)
RECURSIVE CodePoints(_)
\* the code points of a string given as UTF-16 code units: a surrogate pair
\* is one code point.  The byte-wise order of UTF-8 encodings is the order of
\* the code points.
CodePoints(u) ==
    IF Len(u) = 0 THEN << >>
    ELSE IF /\ Len(u) >= 2
            /\ u[1] >= 55296 /\ u[1] <= 56319
            /\ u[2] >= 56320 /\ u[2] <= 57343
         THEN <<65536 + (u[1] - 55296) * 1024 + (u[2] - 56320)>> \o CodePoints(Tail(Tail(u)))
         ELSE <<u[1]>> \o CodePoints(Tail(u))

\* C11: the report emits every key of the merged map exactly once, and the
\* keys appear in strictly ascending byte-wise (code point) order.
C11_KeysAscending ==
    output.printed =>
        /\ Len(output.stations) = Cardinality(DOMAIN masterStats)
        /\ {output.stations[k] : k \in 1..Len(output.stations)} = DOMAIN masterStats
        /\ \A j, k \in 1..Len(output.stations) :
               j < k => LexLess(CodePoints(output.stations[j]), CodePoints(output.stations[k]))

\* `{Dhaka:36.9/36.9/36.9, Tel Aviv:30.1/32.0/33.9}`
ExampleReport ==
    <<123, 68, 104, 97, 107, 97, 58, 51, 54, 46, 57, 47, 51, 54, 46, 57, 47, 51, 54,
      46, 57, 44, 32, 84, 101, 108, 32, 65, 118, 105, 118, 58, 51, 48, 46, 49, 47, 51,
      50, 46, 48, 47, 51, 51, 46, 57, 125>>

\* C12: for the example file processed as one partition the emitted report is
\* exactly `{Dhaka:36.9/36.9/36.9, Tel Aviv:30.1/32.0/33.9}`: entries
\* key:min/mean/max, joined by a comma and a space inside one pair of braces.
C12_ExampleReport ==
    (output.printed /\ file = ExampleFile) => output.text = ExampleReport

\* sub occurs in text as a run of consecutive characters
Occurs(sub, text) ==
    \E p \in 0..(Len(text) - Len(sub)) : Slice(text, p, p + Len(sub)) = sub

\* C13: the emitted output opens with a brace, closes with a brace and holds
\* the entry key:min/mean/max of every key of the merged map, whatever the
\* number of keys and the length of the report.
C13_EveryKeyEmitted ==
    output.printed =>
        /\ Len(output.text) >= 2
        /\ output.text[1] = 123
        /\ output.text[Len(output.text)] = 125
        /\ \A station \in DOMAIN masterStats : Occurs(outputPart(masterStats, station), output.text)

\* what worker w posts when the stream delivers its whole range as one chunk
referenceStats(w) ==
    LET none == [stats |-> << >>, rows |-> 0, lines |-> << >>, buffer |-> << >>, lineStart |-> 0]
        range == Slice(file, startByte(w), Min(endByte(w), FILE_SIZE - 1) + 1)
    IN  processFinalLine(processStreamChunk(<< >>, range, none)).stats

RECURSIVE referenceMerge(_)
\* the reference results of workers 1..n merged in index order
referenceMerge(n) ==
    IF n = 0 THEN << >> ELSE mergeStats(referenceMerge(n - 1), referenceStats(n))

\* the output of the run in which every stream delivers its range at once and
\* the workers report in index order: a function of the file and the worker
\* count alone
ReferenceOutput == sliceOutput(finalOutputOf(referenceMerge(Len(byteChunks))))

\* C15: a run that prints a report prints the same text as any other run on
\* the same file, whatever the scheduling and the completion order of the
\* workers: the text of the reference run.
C15_SameOutputEveryRun ==
    output.printed => output.text = ReferenceOutput

(***************************************************************************)
(* Claims about the partitioners.                                          *)
(***************************************************************************)
\* the ranges that hold byte p
RangesOf(p) == {k \in 1..Len(byteChunks) : byteChunks[k].start <= p /\ p <= byteChunks[k].end}

\* C1: for a file of at least one byte and any worker count, the ranges the
\* partitioner returns start at 0, end at FILE_SIZE - 1, each range's end + 1
\* is the next range's start, and every byte of the file lies in exactly one range.
C1_ExactCover ==
    (pc = "Partitioned" /\ FILE_SIZE >= 1) =>
        /\ Len(byteChunks) >= 1
        /\ byteChunks[1].start = 0
        /\ byteChunks[Len(byteChunks)].end = FILE_SIZE - 1
        /\ \A k \in 1..(Len(byteChunks) - 1) : byteChunks[k].end + 1 = byteChunks[k + 1].start
        /\ \A p \in 0..(FILE_SIZE - 1) : Cardinality(RangesOf(p)) = 1

\* C1 witness: a file partitioned into three ranges by the forward partitioner
\* and one partitioned into several ranges by the backward partitioner exist;
\* this one is a returned partition of at least three ranges.
C1_Witness ==
    /\ pc = "Partitioned"
    /\ FILE_SIZE >= 1
    /\ Len(byteChunks) >= 3

\* C2: for every adjacent pair of returned ranges, the byte at range[k].end is
\* a newline and range[k+1] starts at the byte after it.
C2_NoSplitLine ==
    pc = "Partitioned" =>
        \A k \in 1..(Len(byteChunks) - 1) :
            /\ ByteAt(file, byteChunks[k].end) = CHAR_NEWLINE
            /\ byteChunks[k + 1].start = byteChunks[k].end + 1

C2_MainOnly == prog = "main" => C2_NoSplitLine
C2_BigEnough == (prog = "main" \/ approxChunkSize >= 1) => C2_NoSplitLine

\* the positions p of newline bytes of the file with lo <= p < hi
NewlinesIn(lo, hi) == {p \in lo..(hi - 1) : ByteAt(file, p) = CHAR_NEWLINE}

NewlinesSearched(t) ==
    IF t >= CHUNK_SIZE THEN NewlinesIn(0, t)
    ELSE IF t > 0 THEN NewlinesIn(0, Min(CHUNK_SIZE, FILE_SIZE))
    ELSE {}

C18_LastNewlineBefore ==
    scan.done =>
        /\ scan.result = NotFound <=> NewlinesIn(0, scan.offset) = {}
        /\ scan.result # NotFound =>
               /\ scan.result <= scan.offset
               /\ ByteAt(file, scan.result) = CHAR_NEWLINE
               /\ NewlinesIn(scan.result + 1, scan.offset) = {}

\* C17: the partitioner of the main program never emits an empty or inverted
\* range: every range has start <= end, and the cursor (the start of the next
\* range) strictly increases from one loop iteration to the next.
C17_NoEmptyRange ==
    prog = "main" =>
        /\ \A k \in 1..Len(byteChunks) : byteChunks[k].start <= byteChunks[k].end
        /\ \A k \in 1..(Len(byteChunks) - 1) : byteChunks[k].start < byteChunks[k + 1].start
        /\ Len(byteChunks) >= 1 => byteChunks[Len(byteChunks)].start < cursor

\* C30: every tentative cut position handed to a newline scanner lies inside
\* the file: 0 <= position <= FILE_SIZE - 1, for both partitioners.
C30_TentativeInsideFile ==
    \A k \in 1..Len(tentative) : tentative[k] >= 0 /\ tentative[k] <= FILE_SIZE - 1

\* C30, upper half only: no tentative position lies beyond the last byte
C30_NotBeyondEnd ==
    \A k \in 1..Len(tentative) : tentative[k] <= FILE_SIZE - 1

\* the main program's tentative positions are never beyond the last byte
C30_MainNotBeyondEnd == prog = "main" => C30_NotBeyondEnd

\* the partitioning loop stops only at its return
C27_PartitioningReturns == (~ENABLED NextPart) => pc = "Partitioned"

\* the number of lines of the file: its newline-terminated lines and the
\* unterminated line after the last newline, if any
LineCount ==
    Cardinality({p \in 1..Len(file) : file[p] = CHAR_NEWLINE})
        + (IF Len(file) > 0 /\ file[Len(file)] # CHAR_NEWLINE THEN 1 ELSE 0)

\* C14 as stated: the partitioner returns at most n ranges, and fewer than n
\* only when the file has fewer than n lines.
C14_FewerOnlyIfFewLines ==
    pc = "Partitioned" =>
        /\ Len(byteChunks) <= cpuCount
        /\ Len(byteChunks) < cpuCount => LineCount < cpuCount

\* C14 amended: the partitioner returns at least one and at most n ranges, and
\* it returns fewer than n exactly when one of the first n - 1 ranges already
\* ends at the last byte of the file.
C14_FewerOnlyAtEnd ==
    pc = "Partitioned" =>
        /\ Len(byteChunks) >= 1
        /\ Len(byteChunks) <= cpuCount
        /\ Len(byteChunks) < cpuCount <=>
               \E k \in 1..Min(Len(byteChunks), cpuCount - 1) :
                   byteChunks[k].end = FILE_SIZE - 1

\* C14 witness: fewer ranges than workers were returned for a file that has
\* at least as many lines as workers.
C14_Witness ==
    /\ pc = "Partitioned"
    /\ Len(byteChunks) >= 2
    /\ Len(byteChunks) < cpuCount
    /\ LineCount >= cpuCount

====
